---- MODULE Spec2Model ----
(***************************************************************************)
(* A model of EPSSViewer (src/app_gui.py): the identifier validation, the  *)
(* add / calculate handlers with the network and parsing boundary, and the *)
(* reference curve.                                                        *)
(*                                                                         *)
(* Strings are sequences of one-character strings.  Floating-point values  *)
(* are fixed-point integers in units of 10^-FracDigits.                    *)
(***************************************************************************)
EXTENDS Integers, Sequences, FiniteSets, TLC

VARIABLES
    cve_input,          \* text of the QLineEdit self.cve_input
    cve_list,           \* items of the QListWidget self.cve_list, in order
    epss_score_label,   \* text of the QLabel self.epss_score_label
    ax,                 \* what is drawn on self.ax
    gets,               \* number of requests.get calls issued so far
    calcs,              \* number of calculate_epss calls so far
    last,               \* the last handler run, its inputs and how it ended
    arg,                \* argument of a direct is_valid_cve call
    ret                 \* its result

vars == <<cve_input, cve_list, epss_score_label, ax, gets, calcs, last, arg, ret>>

-----------------------------------------------------------------------------
(* Bounds of the model *)

\* longest tail appended to a prefix to form a candidate identifier
MaxTail == 5
\* longest identifier list
MaxList == 2
\* most calculate_epss calls in a behaviour
MaxCalc == 2
\* most elements in a response's "data" list
MaxData == 2
\* fraction digits kept by the fixed-point stand-in for float
FracDigits == 5

-----------------------------------------------------------------------------
(* Python str operations used by the code *)

Whitespace == {" ", "\t"}

\* the decimal digits, in order of value
DigitChars == <<"0", "1", "2", "3", "4", "5", "6", "7", "8", "9">>

Digits == {DigitChars[i] : i \in 1..Len(DigitChars)}

\* U+00B2 SUPERSCRIPT TWO, one character, written here as a token
Superscript2 == "^2"

\* characters for which str.isdigit() is true: the decimal digits and the
\* other characters of Unicode's digit class, of which the model keeps one
IsDigitChars == Digits \cup {Superscript2}

RECURSIVE lstrip(_)
lstrip(s) ==
    IF s # <<>> /\ Head(s) \in Whitespace THEN lstrip(Tail(s)) ELSE s

RECURSIVE rstrip(_)
rstrip(s) ==
    IF s # <<>> /\ s[Len(s)] \in Whitespace
    THEN rstrip(SubSeq(s, 1, Len(s) - 1))
    ELSE s

\* str.strip()
strip(s) == rstrip(lstrip(s))

\* str.startswith(prefix)
startswith(s, prefix) ==
    Len(s) >= Len(prefix) /\ SubSeq(s, 1, Len(prefix)) = prefix

\* str.split(sep) for a one-character sep: always at least one segment
RECURSIVE split(_, _)
split(s, sep) ==
    IF s = <<>> THEN << <<>> >>
    ELSE IF Head(s) = sep THEN << <<>> >> \o split(Tail(s), sep)
    ELSE LET rest == split(Tail(s), sep)
         IN  << <<Head(s)>> \o Head(rest) >> \o Tail(rest)

\* str.isdigit(): non-empty and every character a digit
isdigit(s) == s # <<>> /\ \A i \in 1..Len(s) : s[i] \in IsDigitChars

CVE_PREFIX == <<"C", "V", "E", "-">>

\* a validator that forgets the prefix test
is_valid_cve_no_prefix(cve) ==
    LET parts == split(cve, "-")
    IN  IF Len(parts) # 3 THEN "False"
        ELSE IF isdigit(parts[2]) /\ isdigit(parts[3]) THEN "True" ELSE "False"

\* EPSSViewer.is_valid_cve: "True", "False", or the exception it raises.
\* `and` short-circuits, so parts[1] and parts[2] (0-based) are only read
\* once the length test has passed.
is_valid_cve(cve) ==
    LET parts == split(cve, "-")
    IN  IF ~startswith(cve, CVE_PREFIX) THEN "False"
        ELSE IF Len(parts) # 3 THEN "False"
        ELSE IF Len(parts) < 2 THEN "IndexError"
        ELSE IF ~isdigit(parts[2]) THEN "False"
        ELSE IF Len(parts) < 3 THEN "IndexError"
        ELSE IF isdigit(parts[3]) THEN "True" ELSE "False"

-----------------------------------------------------------------------------
(* Inputs *)

TailChars == {"-", "1", "a", " ", Superscript2}

RECURSIVE StringsUpTo(_)
StringsUpTo(n) ==
    IF n = 0 THEN {<<>>}
    ELSE LET shorter == StringsUpTo(n - 1)
         IN  shorter \cup {s \o <<c>> : s \in {t \in shorter : Len(t) = n - 1},
                                         c \in TailChars}

Prefixes ==
    { <<>>, CVE_PREFIX, <<"c", "v", "e", "-">>, <<"C", "V", "E">>,
      <<"X", "C", "V", "E", "-">>, <<" ", "C", "V", "E", "-">> }

\* candidate identifiers: a prefix followed by any tail of at most MaxTail
CandidateStrings == {p \o t : p \in Prefixes, t \in StringsUpTo(MaxTail)}

-----------------------------------------------------------------------------
(* Python float: parsing and formatting, in fixed point *)

RECURSIVE Pow10(_)
Pow10(n) == IF n = 0 THEN 1 ELSE 10 * Pow10(n - 1)

\* the integer that stands for 1.0
Scale == Pow10(FracDigits)

DigitVal(c) == (CHOOSE i \in 1..Len(DigitChars) : DigitChars[i] = c) - 1

\* value of a digit string, most significant first; <<>> is 0
RECURSIVE DigitsVal(_)
DigitsVal(ds) ==
    IF ds = <<>> THEN 0
    ELSE 10 * DigitsVal(SubSeq(ds, 1, Len(ds) - 1)) + DigitVal(ds[Len(ds)])

AllDigits(ds) == \A i \in 1..Len(ds) : ds[i] \in Digits

\* the fraction digits as a multiple of 10^-FracDigits (digits past
\* FracDigits are below the model's precision and are dropped)
FracVal(ds) ==
    IF Len(ds) >= FracDigits THEN DigitsVal(SubSeq(ds, 1, FracDigits))
    ELSE DigitsVal(ds) * Pow10(FracDigits - Len(ds))

Ok(v) == [exc |-> "none", val |-> v]

Raise(e) == [exc |-> e, val |-> 0]

\* float(str): surrounding whitespace, an optional sign, digits with an
\* optional point; anything else is a ValueError
float_of_str(s) ==
    LET t      == strip(s)
        signed == t # <<>> /\ Head(t) \in {"+", "-"}
        neg    == t # <<>> /\ Head(t) = "-"
        body   == IF signed THEN Tail(t) ELSE t
        dots   == {i \in 1..Len(body) : body[i] = "."}
        dot    == IF dots = {} THEN Len(body) + 1
                  ELSE CHOOSE i \in dots : \A j \in dots : i <= j
        ip     == SubSeq(body, 1, dot - 1)
        fp     == SubSeq(body, dot + 1, Len(body))
        mag    == DigitsVal(ip) * Scale + FracVal(fp)
    IN  IF /\ AllDigits(ip)
           /\ AllDigits(fp)
           /\ Len(ip) + Len(fp) > 0
        THEN Ok(IF neg THEN -mag ELSE mag)
        ELSE Raise("ValueError")

\* float(x) for a decoded JSON value x
py_float(x) ==
    CASE x.t = "string" -> float_of_str(x.s)
      [] x.t = "number" -> float_of_str(x.lit)
      [] OTHER          -> Raise("TypeError")

\* decimal digits of n >= 0, at least `width` of them
RECURSIVE IntText(_, _)
IntText(n, width) ==
    IF n < 10 /\ width <= 1 THEN <<DigitChars[n + 1]>>
    ELSE IntText(n \div 10, width - 1) \o <<DigitChars[(n % 10) + 1]>>

\* f"{v:.<places>f}": rounded to the nearest, sign kept.  A decimal tie is
\* rounded to even here; Python rounds the binary value, which is rarely an
\* exact tie, so the values the model feeds in have none.
Format(v, places) ==
    LET unit == Pow10(FracDigits - places)
        mag  == IF v < 0 THEN -v ELSE v
        q    == mag \div unit
        r    == mag % unit
        up   == 2 * r > unit \/ (2 * r = unit /\ q % 2 = 1)
        n    == IF up THEN q + 1 ELSE q
        p    == Pow10(places)
    IN  (IF v < 0 THEN <<"-">> ELSE <<>>)
            \o IntText(n \div p, 1) \o <<".">> \o IntText(n % p, places)

-----------------------------------------------------------------------------
(* Decoded JSON values: records tagged by t *)

JNull == [t |-> "null"]

JStr(s) == [t |-> "string", s |-> s]

\* a JSON number, kept with the literal it was decoded from
JNum(lit) == [t |-> "number", lit |-> lit]

JArray(items) == [t |-> "array", items |-> items]

\* a JSON object, as the keys the code reads; Absent marks a missing key
Absent == [t |-> "absent"]

\* an element of "data": a record with (or without) epss and percentile
JElem(e, p) == [t |-> "object", epss |-> e, percentile |-> p]

\* the response body: keys "data" (or Absent) and whether other keys exist
JBody(d, other) == [t |-> "object", data |-> d, other |-> other]

\* Python truth value of a decoded JSON value
truthy(x) ==
    CASE x.t = "null"   -> FALSE
      [] x.t = "number" -> float_of_str(x.lit).val # 0
      [] x.t = "string" -> x.s # <<>>
      [] x.t = "array"  -> x.items # <<>>
      [] x.t = "object" ->
            IF "data" \in DOMAIN x THEN x.data # Absent \/ x.other
            ELSE x.epss # Absent \/ x.percentile # Absent

\* `key in x`
contains(x, key) ==
    CASE x.t = "object" -> Ok(key \in DOMAIN x /\ x[key] # Absent)
      [] x.t = "array"  -> Ok(\E i \in 1..Len(x.items) : x.items[i] = JStr(key))
      [] x.t = "string" -> Ok(FALSE)
      [] OTHER          -> Raise("TypeError")

\* x[key] for a string key
getitem(x, key) ==
    CASE x.t = "object" ->
            IF key \in DOMAIN x /\ x[key] # Absent THEN Ok(x[key])
            ELSE Raise("KeyError")
      [] OTHER -> Raise("TypeError")

\* x[0]
getitem0(x) ==
    CASE x.t = "array"  -> IF x.items # <<>> THEN Ok(x.items[1])
                           ELSE Raise("IndexError")
      [] x.t = "string" -> IF x.s # <<>> THEN Ok(JStr(<<x.s[1]>>))
                           ELSE Raise("IndexError")
      [] x.t = "object" -> Raise("KeyError")
      [] OTHER          -> Raise("TypeError")

-----------------------------------------------------------------------------
(* The reference curve *)

NumSamples == 500

\* mean 0.5 and spread 0.1 of the curve, as fractions
MeanNum == 1
MeanDen == 2
SigmaNum == 1
SigmaDen == 10

\* An array of fractions is kept as its numerators over one denominator.

\* a sampling that leaves the end point out (endpoint=False)
linspace_no_endpoint(start, stop, num) ==
    [nums |-> [k \in 1..num |-> start * num + (k - 1) * (stop - start)],
     den  |-> num]

\* np.linspace(start, stop, num) for integer start and stop: num fractions,
\* evenly spaced, both ends included
linspace(start, stop, num) ==
    [nums |-> [k \in 1..num |-> start * (num - 1) + (k - 1) * (stop - start)],
     den  |-> num - 1]

\* (x - 0.5) ** 2 / (2 * 0.1 ** 2), element by element; the density
\* np.exp(-e) is kept as its exponent e
exponent(x) ==
    [nums |-> [k \in DOMAIN x.nums |->
                   LET d == x.nums[k] * MeanDen - MeanNum * x.den
                   IN  d * d * SigmaDen * SigmaDen],
     den  |-> x.den * x.den * MeanDen * MeanDen * 2 * SigmaNum * SigmaNum]

\* x = np.linspace(0, 1, 500)
x_samples == linspace(0, 1, NumSamples)

\* y = np.exp(-((x - 0.5) ** 2) / (2 * 0.1 ** 2))
y_samples == exponent(x_samples)

\* nothing drawn yet
EmptyAxes == [lines |-> <<>>, markers |-> <<>>, marker_label |-> <<>>]

\* EPSSViewer.plot_bell_curve: the axes after clear(), plot() and axvline()
plot_bell_curve(epss_score) ==
    [lines        |-> << [x |-> x_samples, y |-> y_samples] >>,
     markers      |-> <<epss_score>>,
     marker_label |-> Format(epss_score, 4)]

-----------------------------------------------------------------------------
(* The label texts *)

Label(text, args) == [text |-> text, args |-> args]

PlaceholderLabel == Label("EPSS Score: X    Percentile: XX", <<>>)

InvalidLabel == Label("Invalid CVE format. Please try again.", <<>>)

SelectLabel == Label("Please select a CVE from the list.", <<>>)

NoDataLabel == Label("No data available or invalid API response.", <<>>)

ProcessErrorLabel == Label("Error processing API response.", <<>>)

FetchErrorLabel(msg) == Label("Error fetching data: {}", <<msg>>)

ScoreText == "EPSS Score: {:.4f}    Percentile: {:.2f}"

ScoreLabel(epss_score, percentile) ==
    Label(ScoreText, <<Format(epss_score, 4), Format(percentile, 2)>>)

-----------------------------------------------------------------------------
(* The GET and what can come back *)

API_URL == "https://api.first.org/data/v1/epss"

\* get_current_date(): the day of the call, which the model does not vary
get_current_date == "today"

\* how requests.get / raise_for_status / json end
TransportFailures == {"ConnectionError", "Timeout", "HTTPError"}

Net(kind, body) == [kind |-> kind, body |-> body]

\* no GET was made
NoNet == Net("none", JNull)

\* a 2xx body that is not JSON: json() raises an exception that is a
\* RequestException or a plain ValueError, depending on the requests release
Undecodable(raises) == [t |-> "undecodable", raises |-> raises]

\* a client that tries again after a failure
fetch_epss_data_retry(cve, query_date, net, label) ==
    LET request == [url |-> API_URL, timeout |-> 10,
                    params |-> [cve |-> cve, date |-> query_date,
                                envelope |-> "true", pretty |-> "true"]]
    IN  IF net.kind \in TransportFailures
        THEN [exc |-> "none", val |-> JNull, requests |-> <<request, request>>,
              label |-> FetchErrorLabel(net.kind)]
        ELSE [exc |-> "none", val |-> net.body, requests |-> <<request>>,
              label |-> label]

\* EPSSViewer.fetch_epss_data: the requests issued, the value returned (JNull
\* is None), the label it leaves and the exception that escapes, if any
fetch_epss_data(cve, query_date, net, label) ==
    LET request == [url |-> API_URL, timeout |-> 10,
                    params |-> [cve |-> cve, date |-> query_date,
                                envelope |-> "true", pretty |-> "true"]]
    IN  IF net.kind \in TransportFailures
        THEN [exc |-> "none", val |-> JNull, requests |-> <<request>>,
              label |-> FetchErrorLabel(net.kind)]
        ELSE IF net.body.t = "undecodable"
        THEN IF net.body.raises = "RequestException"
             THEN [exc |-> "none", val |-> JNull, requests |-> <<request>>,
                   label |-> FetchErrorLabel("JSONDecodeError")]
             ELSE [exc |-> net.body.raises, val |-> JNull,
                   requests |-> <<request>>, label |-> label]
        ELSE [exc |-> "none", val |-> net.body, requests |-> <<request>>,
              label |-> label]

\* `not result or "data" not in result or not result["data"]`, left to right
no_data(result) ==
    IF ~truthy(result) THEN Ok(TRUE)
    ELSE LET has == contains(result, "data")
         IN  IF has.exc # "none" THEN has
             ELSE IF ~has.val THEN Ok(TRUE)
             ELSE LET d == getitem(result, "data")
                  IN  IF d.exc # "none" THEN d ELSE Ok(~truthy(d.val))

\* result["data"][0][key], then float of it
read_field(result, key) ==
    LET d == getitem(result, "data")
    IN  IF d.exc # "none" THEN d
        ELSE LET first == getitem0(d.val)
             IN  IF first.exc # "none" THEN first
                 ELSE LET f == getitem(first.val, key)
                      IN  IF f.exc # "none" THEN f ELSE py_float(f.val)

Caught == {"KeyError", "ValueError", "IndexError"}

\* a try block that draws the marker before it has read the percentile
try_block_draw_first(e, p, label, axes) ==
    IF e.exc # "none"
    THEN [exc |-> IF e.exc \in Caught THEN "none" ELSE e.exc,
          label |-> IF e.exc \in Caught THEN ProcessErrorLabel ELSE label,
          ax |-> axes]
    ELSE IF p.exc # "none"
    THEN [exc |-> IF p.exc \in Caught THEN "none" ELSE p.exc,
          label |-> IF p.exc \in Caught THEN ProcessErrorLabel ELSE label,
          ax |-> plot_bell_curve(e.val)]
    ELSE [exc |-> "none", label |-> ScoreLabel(e.val, p.val * 100),
          ax |-> plot_bell_curve(e.val)]

\* the try block of calculate_epss, given how reading epss (e) and then
\* percentile (p) ended: the label and axes it leaves and the exception that
\* escapes it, if any.  An exception ends the block before setText and
\* plot_bell_curve; only KeyError, ValueError and IndexError are caught.
try_block(e, p, label, axes) ==
    IF e.exc # "none"
    THEN [exc |-> IF e.exc \in Caught THEN "none" ELSE e.exc,
          label |-> IF e.exc \in Caught THEN ProcessErrorLabel ELSE label,
          ax |-> axes]
    ELSE IF p.exc # "none"
    THEN [exc |-> IF p.exc \in Caught THEN "none" ELSE p.exc,
          label |-> IF p.exc \in Caught THEN ProcessErrorLabel ELSE label,
          ax |-> axes]
    ELSE [exc |-> "none", label |-> ScoreLabel(e.val, p.val * 100),
          ax |-> plot_bell_curve(e.val)]

\* calculate_epss after fetch_epss_data has returned f: the no-data test (n)
\* and then the try block
after_fetch(f, n, axes) ==
    IF f.exc # "none"
    THEN [exc |-> f.exc, label |-> f.label, ax |-> axes, requests |-> f.requests]
    ELSE IF n.exc # "none"
    THEN [exc |-> n.exc, label |-> f.label, ax |-> axes, requests |-> f.requests]
    ELSE IF n.val
    THEN [exc |-> "none", label |-> NoDataLabel, ax |-> axes, requests |-> f.requests]
    ELSE [requests |-> f.requests] @@
         try_block(read_field(f.val, "epss"), read_field(f.val, "percentile"),
                   f.label, axes)

\* calculate_epss from the fetch on, given what the fetch returned
fetched(f, axes) == after_fetch(f, no_data(f.val), axes)

\* calculate_epss from the fetch on, for the selected identifier
query(cve_id, net, label, axes) ==
    fetched(fetch_epss_data(cve_id, get_current_date, net, label), axes)

-----------------------------------------------------------------------------
(* Inputs of the handlers *)

ID_A == <<"C", "V", "E", "-", "1", "-", "2">>

ID_B == <<"C", "V", "E", "-", "3", "-", "4">>

\* what the user may type: an identifier with blanks around it, a second
\* identifier, and a lower-case one
TypedTexts ==
    { <<" ">> \o ID_A \o <<" ">>, ID_B, <<"c", "v", "e", "-", "1", "-", "2">> }

LitLow == <<"0", ".", "1", "2", "3", "4", "6">>

LitHigh == <<"0", ".", "9">>

LitOver == <<"1", ".", "5">>

\* what a key of the first element may hold
FieldVals ==
    { Absent, JNull, JStr(<<"x">>), JStr(LitLow), JStr(LitOver), JNum(LitHigh) }

\* the first element of "data"
FirstElems ==
    {JElem(e, p) : e \in FieldVals, p \in FieldVals} \cup {JNull, JStr(<<"x">>)}

\* the elements that may follow it
TailElems == { JElem(JStr(LitHigh), JStr(LitLow)), JNull }

RECURSIVE TailsUpTo(_)
TailsUpTo(n) ==
    IF n <= 0 THEN {<<>>}
    ELSE LET shorter == TailsUpTo(n - 1)
         IN  shorter \cup {t \o <<e>> : t \in {u \in shorter : Len(u) = n - 1},
                                         e \in TailElems}

\* the "data" key of the body
DataVals ==
    { Absent, JNull, JNum(<<"5">>), JArray(<<>>) }
        \cup {JArray(<<f>> \o t) : f \in FirstElems, t \in TailsUpTo(MaxData - 1)}

\* the decoded body of a 2xx response
Bodies ==
    {JBody(d, TRUE) : d \in DataVals}
        \cup { JBody(Absent, FALSE), JNull, JNum(<<"5">>), JArray(<<>>),
               JArray(<<JNum(<<"5">>)>>),
               Undecodable("RequestException"), Undecodable("ValueError") }

\* every way the GET can end
NetOutcomes ==
    {Net(k, JNull) : k \in TransportFailures} \cup {Net("ok", b) : b \in Bodies}

\* one outcome of each kind, for the runs that mix queries with adds
NetSample ==
    { Net("Timeout", JNull),
      Net("HTTPError", JNull),
      Net("ok", Undecodable("ValueError")),
      Net("ok", JBody(Absent, TRUE)),
      Net("ok", JBody(JArray(<<>>), TRUE)),
      Net("ok", JBody(JArray(<<JElem(JStr(<<"x">>), JStr(LitLow))>>), TRUE)),
      Net("ok", JBody(JArray(<<JElem(JStr(LitLow), JStr(<<"x">>))>>), TRUE)),
      Net("ok", JBody(JArray(<<JElem(JStr(LitLow), JNull)>>), TRUE)),
      Net("ok", JBody(JArray(<<JElem(JStr(LitLow), JNum(LitHigh))>>), TRUE)),
      Net("ok", JBody(JArray(<<JElem(JStr(LitOver), JStr(LitLow))>>), TRUE)) }

-----------------------------------------------------------------------------
(* The state machine *)

Init ==
    /\ cve_input = <<>>
    /\ cve_list = <<>>
    /\ epss_score_label = PlaceholderLabel
    /\ ax = EmptyAxes
    /\ gets = 0
    /\ calcs = 0
    /\ last = [op |-> "init"]
    /\ arg = <<>>
    /\ ret = "unset"

\* the user edits the input field
edit_cve_input(text) ==
    /\ cve_input # text
    /\ cve_input' = text
    /\ last' = [op |-> "edit"]
    /\ UNCHANGED <<cve_list, epss_score_label, ax, gets, calcs, arg, ret>>

\* an add handler that clears the input field whatever the verdict
add_cve_always_clear ==
    LET cve_text == strip(cve_input)
        verdict  == is_valid_cve(cve_text)
    IN  /\ verdict = "True" => Len(cve_list) < MaxList
        /\ cve_input' = <<>>
        /\ IF verdict = "True"
           THEN /\ cve_list' = Append(cve_list, cve_text)
                /\ UNCHANGED epss_score_label
           ELSE /\ epss_score_label' = InvalidLabel
                /\ UNCHANGED cve_list
        /\ last' = [op |-> "add_cve", text |-> cve_input, verdict |-> verdict,
                    exc |-> "none"]
        /\ UNCHANGED <<ax, gets, calcs, arg, ret>>

\* an add handler that appends the text as typed
add_cve_unstripped ==
    LET cve_text == strip(cve_input)
        verdict  == is_valid_cve(cve_text)
    IN  /\ verdict = "True" => Len(cve_list) < MaxList
        /\ IF verdict = "True"
           THEN /\ cve_list' = Append(cve_list, cve_input)
                /\ cve_input' = <<>>
                /\ UNCHANGED epss_score_label
           ELSE /\ epss_score_label' = InvalidLabel
                /\ UNCHANGED <<cve_list, cve_input>>
        /\ last' = [op |-> "add_cve", text |-> cve_input, verdict |-> verdict,
                    exc |-> "none"]
        /\ UNCHANGED <<ax, gets, calcs, arg, ret>>

\* EPSSViewer.add_cve
add_cve ==
    LET cve_text == strip(cve_input)
        verdict  == is_valid_cve(cve_text)
    IN  /\ verdict = "True" => Len(cve_list) < MaxList
        /\ IF verdict = "True"
           THEN /\ cve_list' = Append(cve_list, cve_text)
                /\ cve_input' = <<>>
                /\ UNCHANGED epss_score_label
           ELSE IF verdict = "False"
           THEN /\ epss_score_label' = InvalidLabel
                /\ UNCHANGED <<cve_list, cve_input>>
           ELSE UNCHANGED <<cve_list, cve_input, epss_score_label>>
        /\ last' = [op |-> "add_cve", text |-> cve_input, verdict |-> verdict,
                    exc |-> IF verdict \in {"True", "False"} THEN "none" ELSE verdict]
        /\ UNCHANGED <<ax, gets, calcs, arg, ret>>

\* the state calculate_epss leaves when the query ended as q
finish(selected, net, q) ==
    /\ epss_score_label' = q.label
    /\ ax' = q.ax
    /\ gets' = gets + Len(q.requests)
    /\ last' = [op |-> "calculate_epss", selected |-> selected,
                net |-> net, exc |-> q.exc, requests |-> q.requests]

\* EPSSViewer.calculate_epss with item number `selected` of the list selected
\* (0: nothing selected) and the GET ending as `net`
calculate_epss(selected, net) ==
    /\ calcs < MaxCalc
    /\ calcs' = calcs + 1
    /\ IF selected = 0
       THEN /\ epss_score_label' = SelectLabel
            /\ last' = [op |-> "calculate_epss", selected |-> 0, net |-> net,
                        exc |-> "none", requests |-> <<>>]
            /\ UNCHANGED <<ax, gets>>
       ELSE finish(selected, net,
                   query(cve_list[selected], net, epss_score_label, ax))
    /\ UNCHANGED <<cve_input, cve_list, arg, ret>>

Next ==
    \/ \E text \in TypedTexts \cup {<<>>} : edit_cve_input(text)
    \/ add_cve
    \/ calculate_epss(0, NoNet)
    \/ \E selected \in 1..Len(cve_list), net \in NetSample :
           calculate_epss(selected, net)

Spec == Init /\ [][Next]_vars

-----------------------------------------------------------------------------
(* Queries on their own: one identifier added, then Calculate with every   *)
(* outcome of the GET                                                      *)

InitQuery ==
    /\ Init!1 /\ Init!3 /\ Init!4 /\ Init!5 /\ Init!6 /\ Init!8 /\ Init!9
    /\ cve_list = <<ID_A>>
    /\ last = [op |-> "add_cve", text |-> ID_A, verdict |-> "True", exc |-> "none"]

NextQuery ==
    \/ calculate_epss(0, NoNet)
    \/ \E net \in NetOutcomes : calculate_epss(1, net)

SpecQuery == InitQuery /\ [][NextQuery]_vars

-----------------------------------------------------------------------------
(* is_valid_cve on its own: every candidate string, one call *)

InitValid ==
    /\ Init!1 /\ Init!2 /\ Init!3 /\ Init!4 /\ Init!5 /\ Init!6 /\ Init!7
    /\ arg \in CandidateStrings
    /\ ret = "unset"

is_valid_cve_call ==
    /\ ret = "unset"
    /\ ret' = is_valid_cve(arg)
    /\ UNCHANGED <<cve_input, cve_list, epss_score_label, ax, gets, calcs, last, arg>>

SpecValid == InitValid /\ [][is_valid_cve_call]_vars

-----------------------------------------------------------------------------
(* plot_bell_curve on its own: calls with scores from a grid *)

\* number of steps of the score grid over [0, 1]
ScoreSteps == 10

CurveScores == {(k * Scale) \div ScoreSteps : k \in 0..ScoreSteps}

plot_bell_curve_call(epss_score) ==
    /\ ax' = plot_bell_curve(epss_score)
    /\ last' = [op |-> "plot_bell_curve", before |-> ax.markers]
    /\ UNCHANGED <<cve_input, cve_list, epss_score_label, gets, calcs, arg, ret>>

NextCurve == \E epss_score \in CurveScores : plot_bell_curve_call(epss_score)

SpecCurve == Init /\ [][NextCurve]_vars

-----------------------------------------------------------------------------
(* Vocabulary of the properties *)

\* s is CVE-<digits>-<digits>: the literal prefix, a non-empty run of
\* digits, one hyphen, a non-empty run of digits, and nothing else; a digit
\* is a character of Unicode's digit class
MatchesPattern(s) ==
    /\ Len(s) >= 4
    /\ SubSeq(s, 1, 4) = <<"C", "V", "E", "-">>
    /\ \E k \in 5..Len(s) :
          /\ s[k] = "-"
          /\ k > 5 /\ \A i \in 5..(k - 1) : s[i] \in IsDigitChars
          /\ k < Len(s) /\ \A i \in (k + 1)..Len(s) : s[i] \in IsDigitChars

\* the last handler run was a Calculate with an item selected
Queried == last.op = "calculate_epss" /\ last.selected # 0

\* a value float() turns into a number
Numeric(v) == v.t \in {"string", "number"} /\ py_float(v).exc = "none"

\* the response is a JSON object whose "data" is absent or an empty list
DataMissing(net) ==
    /\ net.kind = "ok" /\ net.body.t = "object"
    /\ \/ net.body.data = Absent
       \/ net.body.data.t = "array" /\ net.body.data.items = <<>>

\* the response is a JSON object whose "data" is a non-empty list
HasFirst(net) ==
    /\ net.kind = "ok" /\ net.body.t = "object"
    /\ net.body.data # Absent
    /\ net.body.data.t = "array" /\ net.body.data.items # <<>>

First(net) == net.body.data.items[1]

\* the first element is a record with numeric epss and percentile
WellFormed(net) ==
    /\ HasFirst(net)
    /\ First(net).t = "object"
    /\ Numeric(First(net).epss) /\ Numeric(First(net).percentile)

IsErrorLabel(label) ==
    \/ label \in {NoDataLabel, ProcessErrorLabel}
    \/ label.text = "Error fetching data: {}"

IsScoreLabel(label) == label.text = ScoreText

\* how the last query ended, read off the state it left
Observed ==
    IF last.exc # "none" THEN "Raised"
    ELSE IF epss_score_label = NoDataLabel THEN "NoData"
    ELSE IF epss_score_label = ProcessErrorLabel THEN "MalformedResponse"
    ELSE IF IsScoreLabel(epss_score_label) THEN "Success"
    ELSE "Other"

Abs(n) == IF n < 0 THEN -n ELSE n

-----------------------------------------------------------------------------
(* C1 *)

\* C1: is_valid_cve(s) returns true exactly when s is "CVE-", a non-empty
\* run of digits, "-", a non-empty run of digits (so that splitting on "-"
\* gives exactly 3 segments); for every other string it returns false, and it
\* never raises.
C1_ValidIffPattern ==
    ret # "unset" =>
        /\ ret \in {"True", "False"}
        /\ (ret = "True") <=> MatchesPattern(arg)

\* an identifier with a two-digit year was accepted
C1_Witness == ret = "True" /\ Len(arg) = 8

-----------------------------------------------------------------------------
(* C2 - C5: one query *)

\* C2: whenever the GET fails, or the body or its first data element is not
\* the expected shape, calculate_epss returns normally and leaves an error
\* text in the label.
C2_FailuresBecomeMessages ==
    (Queried /\ ~WellFormed(last.net)) =>
        (last.exc = "none" /\ IsErrorLabel(epss_score_label))

\* C3: the final message tells the three failures apart: the transport error
\* text after a transport failure, the no-data message after absent or empty
\* data, the parse-error message after a malformed first element; the three
\* are different texts.
C3_MessagesDistinguish ==
    /\ NoDataLabel # ProcessErrorLabel
    /\ \A k \in TransportFailures :
          FetchErrorLabel(k) \notin {NoDataLabel, ProcessErrorLabel}
    /\ Queried =>
          /\ last.net.kind \in TransportFailures =>
                epss_score_label = FetchErrorLabel(last.net.kind)
          /\ DataMissing(last.net) => epss_score_label = NoDataLabel
          /\ (HasFirst(last.net) /\ ~WellFormed(last.net)) =>
                epss_score_label = ProcessErrorLabel

\* C4: a 2xx response is NoData when "data" is absent or empty; otherwise the
\* first element alone decides: Success with exactly its epss and percentile
\* when both are present and numeric, MalformedResponse when a key is missing
\* or a value is not numeric.
C4_Classification ==
    /\ (Queried /\ DataMissing(last.net)) => Observed = "NoData"
    /\ (Queried /\ HasFirst(last.net) /\ First(last.net).t = "object") =>
          IF WellFormed(last.net)
          THEN /\ Observed = "Success"
               /\ ax.markers = <<py_float(First(last.net).epss).val>>
               /\ epss_score_label =
                     ScoreLabel(py_float(First(last.net).epss).val,
                                py_float(First(last.net).percentile).val * 100)
          ELSE Observed = "MalformedResponse"

\* C5: whenever a query ends with the score text shown and the marker drawn,
\* the parsed epss and the parsed percentile both lie in [0, 1].
C5_SuccessInRange ==
    (Queried /\ last.exc = "none" /\ IsScoreLabel(epss_score_label)) =>
        /\ ax.markers # <<>>
        /\ ax.markers[1] >= 0 /\ ax.markers[1] <= Scale
        /\ py_float(First(last.net).percentile).val >= 0
        /\ py_float(First(last.net).percentile).val <= Scale

-----------------------------------------------------------------------------
(* C6, C7, C9, C10: sequences of edits, adds and queries *)

\* the step is a Calculate
CalcStep == calcs' = calcs + 1 /\ last'.op = "calculate_epss"

\* the step is an add
AddStep == calcs' = calcs /\ last'.op = "add_cve"

\* C6: a Calculate with an item selected issues exactly one GET, whether it
\* succeeds or fails; a Calculate with nothing selected issues none and only
\* sets the 'please select' message; an add issues none; so the GETs never
\* outnumber the Calculate actions.
C6_OneGetPerCalculate ==
    /\ [](gets <= calcs)
    /\ [][ /\ calcs' # calcs => CalcStep
           /\ (CalcStep /\ last'.selected # 0) =>
                 (gets' = gets + 1 /\ Len(last'.requests) = 1)
           /\ (CalcStep /\ last'.selected = 0) =>
                 /\ gets' = gets
                 /\ epss_score_label' = SelectLabel
                 /\ UNCHANGED <<cve_input, cve_list, ax>>
           /\ ~CalcStep => gets' = gets ]_vars

\* a failed GET after a Calculate with nothing selected: two Calculates, one GET
C6_Witness ==
    /\ Queried /\ last.net.kind = "Timeout"
    /\ calcs = 2 /\ gets = 1

\* C7: an add with an invalid identifier changes nothing but the label, which
\* becomes the 'invalid format' message: the list, the input field and the
\* curve stay as they were and no request is issued; an add with a valid
\* identifier leaves the label and the curve as they were.
C7_AddFrame ==
    [][ AddStep =>
          IF MatchesPattern(strip(cve_input))
          THEN UNCHANGED <<epss_score_label, ax>>
          ELSE /\ epss_score_label' = InvalidLabel
               /\ UNCHANGED <<cve_list, cve_input, ax, gets>> ]_vars

\* an invalid add after a successful query, with the text still in the field
C7_Witness ==
    /\ last.op = "add_cve" /\ last.verdict = "False"
    /\ epss_score_label = InvalidLabel
    /\ cve_input # <<>> /\ cve_list # <<>> /\ ax.markers # <<>>

\* C9: every entry of the list satisfies is_valid_cve; the list only grows: a
\* valid add appends the stripped input at the end and keeps what was there,
\* duplicates included, and nothing else changes the list; the identifier of
\* every GET is the selected entry, hence valid.
C9_ListValid ==
    /\ [](\A i \in 1..Len(cve_list) : is_valid_cve(cve_list[i]) = "True")
    /\ [](Queried =>
             \A i \in 1..Len(last.requests) :
                 /\ last.requests[i].params.cve = cve_list[last.selected]
                 /\ is_valid_cve(last.requests[i].params.cve) = "True")
    /\ [][ /\ (AddStep /\ MatchesPattern(strip(cve_input))) =>
                 cve_list' = Append(cve_list, strip(cve_input))
           /\ ~(AddStep /\ MatchesPattern(strip(cve_input))) =>
                 cve_list' = cve_list ]_vars

\* the same identifier twice in the list (typed with blanks around it), and a
\* GET for the second
C9_Witness ==
    /\ cve_list = <<ID_A, ID_A>>
    /\ Queried /\ last.selected = 2 /\ last.requests # <<>>

\* C10: when the label shows a score text the marker is at that score; a
\* Calculate that ends in an error, and every add, leaves the axes as they
\* were; a Calculate that ends well sets the label and the marker from the
\* same value.
C10_LabelMatchesMarker ==
    /\ [](IsScoreLabel(epss_score_label) =>
             /\ Len(ax.markers) = 1
             /\ epss_score_label.args[1] = Format(ax.markers[1], 4))
    /\ [][ /\ (CalcStep /\ (last'.exc # "none" \/ ~IsScoreLabel(epss_score_label'))) =>
                 ax' = ax
           /\ (CalcStep /\ last'.exc = "none" /\ IsScoreLabel(epss_score_label')) =>
                 /\ WellFormed(last'.net)
                 /\ ax'.markers = <<py_float(First(last'.net).epss).val>>
                 /\ epss_score_label'.args[1] = Format(ax'.markers[1], 4)
           /\ ~CalcStep => ax' = ax ]_vars

\* the error message of a malformed response beside the marker of an earlier
\* query
C10_Witness ==
    /\ Queried /\ epss_score_label = ProcessErrorLabel
    /\ HasFirst(last.net) /\ Numeric(First(last.net).epss)
    /\ ax.markers # <<>>

-----------------------------------------------------------------------------
(* C8: the reference curve *)

Drawn == ax.lines # <<>>

\* 500 samples, x evenly spaced from 0 to 1, y the densities of those x
CurveUniform ==
    LET x == ax.lines[1].x
        y == ax.lines[1].y
    IN  /\ Len(ax.lines) = 1
        /\ Len(x.nums) = 500 /\ Len(y.nums) = 500
        /\ x.nums[1] = 0 /\ x.nums[500] = x.den
        /\ \A k \in 1..499 : x.nums[k + 1] - x.nums[k] = x.nums[2] - x.nums[1]
        /\ x.nums[2] > x.nums[1]
        /\ y = exponent(x)

\* the density strictly decreases as |x - 0.5| increases (the density is
\* exp of minus the exponent kept in y)
CurveDecreasing ==
    LET x == ax.lines[1].x
        y == ax.lines[1].y
        far(k) == Abs(2 * x.nums[k] - x.den)
    IN  \A i \in 1..Len(x.nums) : \A j \in i..Len(x.nums) :
            /\ far(i) < far(j) => y.nums[i] < y.nums[j]
            /\ far(j) < far(i) => y.nums[j] < y.nums[i]

\* some sample sits at x = 0.5 and has density 1.0
CurveHasPeakSample ==
    LET x == ax.lines[1].x
        y == ax.lines[1].y
    IN  \E k \in 1..Len(x.nums) : 2 * x.nums[k] = x.den /\ y.nums[k] = 0

\* no sample sits at x = 0.5 or has density 1.0; the two middle samples,
\* x = 249/499 and x = 250/499, share the largest density
CurvePeakBetweenSamples ==
    LET x == ax.lines[1].x
        y == ax.lines[1].y
    IN  /\ \A k \in 1..Len(x.nums) : 2 * x.nums[k] # x.den /\ y.nums[k] > 0
        /\ x.nums[250] = 249 /\ x.nums[251] = 250 /\ x.den = 499
        /\ y.nums[250] = y.nums[251]
        /\ \A k \in 1..Len(y.nums) : y.nums[k] >= y.nums[250]

\* the density function itself is 1.0 at x = 0.5
PeakOfDensity ==
    exponent([nums |-> <<MeanNum>>, den |-> MeanDen]).nums[1] = 0

\* C8 as stated: every call draws the same 500 pairs, x uniform over [0, 1],
\* with density 1.0 at x = 0.5 in the sequence and density strictly
\* decreasing as |x - 0.5| increases.
C8_PeakInSequence ==
    Drawn => (CurveUniform /\ CurveDecreasing /\ CurveHasPeakSample)

\* C8, amended: every call, whatever the score, draws the same 500 pairs, x
\* uniform over [0, 1]; the density function is 1.0 at x = 0.5 but 0.5 is not
\* among the samples: the largest density in the sequence is that of the two
\* middle samples and is below 1.0; density strictly decreases as |x - 0.5|
\* increases.
C8_Curve ==
    /\ [](Drawn => (CurveUniform /\ CurveDecreasing /\ CurvePeakBetweenSamples))
    /\ [](PeakOfDensity)
    /\ [][Drawn => ax'.lines = ax.lines]_vars

\* a second call, with another score than the first
C8_Witness ==
    /\ last.op = "plot_bell_curve"
    /\ last.before # <<>> /\ last.before # ax.markers

====
